---- MODULE Spec2Model ----
(***************************************************************************)
(* The continuous voice memo monitor of src/continuous_monitor.py:         *)
(* the processed-file ledger (ProcessedFileTracker), the readiness filter, *)
(* the file signature, one scan (discover_new_files, process_file,         *)
(* run_single_scan) and the polling loop (start_continuous_monitoring,     *)
(* stop_monitoring), together with the environment the loop runs in: the   *)
(* file system, the clock, the local time zone, callback outcomes, ledger  *)
(* I/O errors, a keyboard interrupt and a kill followed by a restart.      *)
(***************************************************************************)
EXTENDS Integers, Sequences, FiniteSets, TLC

(***************************************************************************)
(* Program constants (MonitorConfig defaults).                             *)
(***************************************************************************)
polling_interval == 60
min_file_age == 30
max_file_age_days == 7

(***************************************************************************)
(* Bounds of the model.                                                    *)
(***************************************************************************)
\* number of disturbances: changes the environment makes to the files and
\* the time zone, ledger I/O errors, interrupts, kills
MaxEvents == 1

Paths == {"A.m4a", "B.m4a"}
Sizes == {1, 2}
\* offsets of local time from UTC, in seconds
TzOffsets == {0, 3600}

\* max_age = self.config.max_file_age_days * 24 * 3600
MaxAge == max_file_age_days * 24 * 3600

\* the instants the clock is read at: the start, one minimum age later, and
\* one polling interval after that
Instants == {0, min_file_age, min_file_age + polling_interval}

\* a path os.stat raises OSError for
NoFile == [exists |-> FALSE, size |-> 0, mtime |-> 0]
\* _get_file_signature returning None
NoSignature == [ok |-> FALSE, path |-> "", size |-> 0, mtime |-> 0]
\* no callback result at hand
NoResult == [success |-> FALSE, error |-> "NULL"]
\* process_file has not returned yet
NoReturn == [kind |-> "none", success |-> FALSE, error |-> "NULL"]
\* run_single_scan has not returned yet
NoScan ==
    [kind |-> "none", success |-> FALSE, files_found |-> 0,
     files_processed |-> 0, files_failed |-> 0, error |-> "NULL",
     scan_time |-> 0]
NoProbe == [path |-> "", result |-> FALSE]
\* no get_status call under way, none has returned yet (seen is history:
\* the ledgers the queries of the call were answered from)
NoStatus ==
    [pc |-> "idle", running |-> FALSE, total_processed |-> 0,
     processed_last_24h |-> 0, recent_files |-> <<>>, seen |-> {}]
\* no thread besides the one of pc, no get_status call yet
NoThreads == [loops |-> <<>>, status |-> NoStatus]
\* cleanup_old_records has not been called yet
NoCleanup == [called |-> FALSE, days |-> 0, deleted_count |-> 0]

VARIABLES
    fs,               \* the file system: path -> stat result
    now,              \* time.time(), in seconds
    tz,               \* the local zone's offset from UTC
    ledger,           \* the rows of table processed_files
    running,          \* self.running
    pc,               \* where the thread running the loop is
    new_files,        \* run_single_scan: the list discover_new_files returned
    idx,              \* run_single_scan: position of the for loop in new_files
    signature,        \* process_file: the signature taken before the callback
    result,           \* process_file: the callback's result, or the exception
    processed_count,  \* run_single_scan
    failed_count,     \* run_single_scan
    returned,         \* what the last process_file call returned
    scan_result,      \* what the last run_single_scan call returned
    events,           \* number of disturbances so far
    calls,            \* history: callback invocations per path
    lost,             \* history: invocations whose ledger write never completed
    cuts,             \* history: what cut them short: "ledger", "interrupt", "kill"
    replaced,         \* history: the paths whose row has been replaced
    history,          \* history: "absent", "single" (created, never changed), "changed"
    recorded,         \* history: outcome recorded for the path's present signature
    scan_ready,       \* history: the paths inside the age window at discovery
    probe,            \* the last _is_file_ready call made on its own
    scan_start,       \* run_single_scan: time.time() at its first statement
    asked,            \* history: termination requests since start set self.running
    threads,          \* several threads inside start_continuous_monitoring
    scan_log,         \* history: what the scan under way has done, in order
    cleanup           \* the last cleanup_old_records call: its argument and return

envVars == <<fs, now, tz>>
loopVars == <<running, pc>>
scanVars == <<new_files, idx, signature, result, processed_count, failed_count>>
outVars == <<returned, scan_result>>
histVars == <<calls, lost, cuts, replaced, history, recorded, scan_ready>>
vars ==
    <<fs, now, tz, ledger, running, pc, new_files, idx, signature, result,
      processed_count, failed_count, returned, scan_result, events, calls, lost,
      cuts, replaced, history, recorded, scan_ready, probe, scan_start, asked,
      threads, scan_log, cleanup>>

(***************************************************************************)
(* File signature and readiness filter.                                    *)
(***************************************************************************)
\* datetime.fromtimestamp(t).isoformat(): t rendered in local time.  The
\* rendering is the local wall-clock reading, so it moves with the zone.
IsoFormatIn(t, offset) == t + offset
IsoFormat(t) == IsoFormatIn(t, tz)

\* os.stat(file_path): NoFile stands for OSError
Stat(path) == fs[path]

\* the filter with the lower comparison off by one: <= for <
IsFileReadyAtLowerInclusive(st, t) ==
    IF ~st.exists THEN FALSE
    ELSE LET file_age == t - st.mtime IN
         IF file_age <= min_file_age THEN FALSE
         ELSE IF file_age > MaxAge THEN FALSE
         ELSE TRUE

\* the filter with the upper comparison off by one: >= for >
IsFileReadyAtUpperInclusive(st, t) ==
    IF ~st.exists THEN FALSE
    ELSE LET file_age == t - st.mtime IN
         IF file_age < min_file_age THEN FALSE
         ELSE IF file_age >= MaxAge THEN FALSE
         ELSE TRUE

\* _is_file_ready on the stat result st (NoFile: os.stat raised, which the
\* except clause turns into False) at time t
IsFileReadyAt(st, t) ==
    IF ~st.exists THEN FALSE
    ELSE LET file_age == t - st.mtime IN
         IF file_age < min_file_age THEN FALSE
         ELSE IF file_age > MaxAge THEN FALSE
         ELSE TRUE

IsFileReady(path) == IsFileReadyAt(Stat(path), now)

GetFileSignature(path) ==
    LET st == Stat(path) IN
    IF ~st.exists THEN NoSignature
    ELSE [ok |-> TRUE, path |-> path, size |-> st.size, mtime |-> IsoFormat(st.mtime)]

(***************************************************************************)
(* ProcessedFileTracker.  A row's AUTOINCREMENT id is read by nothing and  *)
(* is left out.                                                            *)
(***************************************************************************)
Row(file_path, file_size, modification_time, processed_time, success, error_message) ==
    [file_path |-> file_path, file_size |-> file_size,
     modification_time |-> modification_time, processed_time |-> processed_time,
     success |-> success, error_message |-> error_message]

\* the lookup matching the modification time against the wrong column
IsProcessedWrongColumn(L, file_path, file_size, modification_time) ==
    Cardinality({r \in L : /\ r.file_path = file_path
                           /\ r.file_size = file_size
                           /\ r.processed_time = modification_time}) > 0

\* the lookup counting successful rows only
IsProcessedSuccessOnly(L, file_path, file_size, modification_time) ==
    Cardinality({r \in L : /\ r.file_path = file_path
                           /\ r.file_size = file_size
                           /\ r.modification_time = modification_time
                           /\ r.success}) > 0

\* the lookup without the modification time
IsProcessedIgnoresMtime(L, file_path, file_size, modification_time) ==
    Cardinality({r \in L : /\ r.file_path = file_path
                           /\ r.file_size = file_size}) > 0

\* the lookup without the size
IsProcessedIgnoresSize(L, file_path, file_size, modification_time) ==
    Cardinality({r \in L : /\ r.file_path = file_path
                           /\ r.modification_time = modification_time}) > 0

\* is_processed: SELECT COUNT(*) ... WHERE file_path = ? AND file_size = ?
\* AND modification_time = ?, and count > 0
IsProcessed(L, file_path, file_size, modification_time) ==
    Cardinality({r \in L : /\ r.file_path = file_path
                           /\ r.file_size = file_size
                           /\ r.modification_time = modification_time}) > 0

\* the write as a plain INSERT into a table without the UNIQUE constraint
MarkProcessedInsertOnly(L, file_path, file_size, modification_time, success, error_message) ==
    L \cup {Row(file_path, file_size, modification_time, IsoFormat(now),
                success, error_message)}

\* the write skipped for failed attempts
MarkProcessedSuccessOnly(L, file_path, file_size, modification_time, success, error_message) ==
    IF success
    THEN {r \in L : r.file_path # file_path}
             \cup {Row(file_path, file_size, modification_time, IsoFormat(now),
                       success, error_message)}
    ELSE L

\* mark_processed: INSERT OR REPLACE under file_path TEXT UNIQUE: the
\* conflicting row is deleted, the new row inserted and committed
MarkProcessed(L, file_path, file_size, modification_time, success, error_message) ==
    {r \in L : r.file_path # file_path}
        \cup {Row(file_path, file_size, modification_time, IsoFormat(now),
                  success, error_message)}

GetProcessedCount(L) == Cardinality(L)

Day == 24 * 3600

\* (datetime.now() - timedelta(days=days)).isoformat()
CutoffTime(days) == IsoFormat(now) - days * Day

\* the rows deleted at the cutoff itself as well
OldRecordsInclusive(L, cutoff_time) == {r \in L : r.processed_time <= cutoff_time}

\* the rows of DELETE FROM processed_files WHERE processed_time < ?
OldRecords(L, cutoff_time) == {r \in L : r.processed_time < cutoff_time}

\* the dictionary get_recent_processed makes of a row
RecentFile(r) ==
    [file_path |-> r.file_path, processed_time |-> r.processed_time,
     success |-> r.success, error_message |-> r.error_message]

\* all orders of a set of rows with the processed times falling
RECURSIVE NewestFirst(_)
NewestFirst(rows) ==
    IF rows = {} THEN {<<>>}
    ELSE UNION {{<<RecentFile(r)>> \o rest : rest \in NewestFirst(rows \ {r})} :
                   r \in {x \in rows : \A y \in rows :
                                          x.processed_time >= y.processed_time}}

\* get_recent_processed(hours): SELECT ... WHERE processed_time > ? ORDER BY
\* processed_time DESC, the cutoff being (datetime.now() -
\* timedelta(hours=hours)).isoformat(); SQLite fixes the order of ties
GetRecentProcessed(L, hours) ==
    NewestFirst({r \in L : r.processed_time > IsoFormat(now) - hours * 3600})

\* recent_processed[:5]
FirstFive(seq) == SubSeq(seq, 1, IF Len(seq) < 5 THEN Len(seq) ELSE 5)

\* the table created afresh at every start
InitDatabaseFresh(L) == {}

\* _init_database on an existing ledger file: CREATE TABLE IF NOT EXISTS
\* and CREATE INDEX IF NOT EXISTS leave the committed rows as they are
InitDatabase(L) == L

(***************************************************************************)
(* Discovery.                                                              *)
(***************************************************************************)
\* all orders of a set of paths
RECURSIVE Orders(_)
Orders(S) ==
    IF S = {} THEN {<<>>}
    ELSE UNION {{<<p>> \o rest : rest \in Orders(S \ {p})} : p \in S}

\* AudioFileProcessor.discover_audio_files: the files that can be stat'ed,
\* sorted by modified_date, newest first; glob fixes the order of ties
DiscoverAudioFiles ==
    {all \in Orders({p \in DOMAIN fs : Stat(p).exists}) :
        \A i, j \in 1..Len(all) :
            i < j => IsoFormat(Stat(all[i]).mtime) >= IsoFormat(Stat(all[j]).mtime)}

\* a path counted as processed once it has a row, whatever its signature
IsNewFileOncePerPath(path) ==
    /\ IsFileReady(path)
    /\ GetFileSignature(path).ok
    /\ ~\E r \in ledger : r.file_path = path

\* the three tests of the loop in discover_new_files
IsNewFile(path) ==
    /\ IsFileReady(path)
    /\ GetFileSignature(path).ok
    /\ LET sig == GetFileSignature(path) IN
       ~IsProcessed(ledger, sig.path, sig.size, sig.mtime)

\* the new files returned oldest first
DiscoverNewFilesOldestFirst(all_files) ==
    LET found == SelectSeq(all_files, IsNewFile) IN
    [i \in 1..Len(found) |-> found[Len(found) + 1 - i]]

\* discover_new_files on the list the adapter returned: the loop appends the
\* entries that pass the three tests, in the order of the list
DiscoverNewFiles(all_files) == SelectSeq(all_files, IsNewFile)

(***************************************************************************)
(* Initial state: the monitor has been constructed (__init__) on a fresh   *)
(* ledger file; recordings may already lie in the watched folders.         *)
(***************************************************************************)
\* what __init__ and a run that has not started leave in the monitor
Constructed ==
    /\ running = FALSE
    /\ pc = "idle"
    /\ new_files = <<>>
    /\ idx = 0
    /\ signature = NoSignature
    /\ result = NoResult
    /\ processed_count = 0
    /\ failed_count = 0
    /\ returned = NoReturn
    /\ scan_result = NoScan
    /\ scan_start = 0
    /\ scan_log = <<>>
    /\ cleanup = NoCleanup

NoHistory ==
    /\ events = 0
    /\ calls = [p \in Paths |-> 0]
    /\ lost = [p \in Paths |-> 0]
    /\ cuts = [p \in Paths |-> {}]
    /\ replaced = {}
    /\ history = [p \in Paths |-> IF fs[p].exists THEN "single" ELSE "absent"]
    /\ recorded = [p \in Paths |-> "none"]
    /\ scan_ready = {}
    /\ probe = NoProbe
    /\ asked = {}

Init ==
    /\ fs \in [Paths -> {NoFile, [exists |-> TRUE, size |-> 1, mtime |-> 0]}]
    /\ now = 0
    /\ tz = 0
    /\ ledger = {}
    /\ threads = NoThreads
    /\ Constructed
    /\ NoHistory

(***************************************************************************)
(* History bookkeeping (no part of the program).                           *)
(***************************************************************************)
\* the signatures of the paths in C change (C holds no path that stays absent)
HistoryOfChange(C) ==
    /\ history' = [p \in Paths |->
                      IF p \notin C THEN history[p]
                      ELSE IF history[p] = "absent" THEN "single" ELSE "changed"]
    /\ calls' = [p \in Paths |-> IF p \in C THEN 0 ELSE calls[p]]
    /\ lost' = [p \in Paths |-> IF p \in C THEN 0 ELSE lost[p]]
    /\ cuts' = [p \in Paths |-> IF p \in C THEN {} ELSE cuts[p]]
    /\ recorded' = [p \in Paths |-> IF p \in C THEN "none" ELSE recorded[p]]
    /\ UNCHANGED <<replaced, scan_ready>>

\* the callback has been invoked and the ledger write of the attempt is
\* still to come
InFlight == pc \in {"callback", "mark", "mark_exc"}

\* the path's file was created once and has kept its signature since
Tracked(p) == history[p] = "single"

\* the attempt in flight, if any, is given up without a ledger write
HistoryOfAbandon(cause) ==
    LET cut(p) == InFlight /\ p = signature.path /\ Tracked(p) IN
    /\ lost' = [p \in Paths |-> IF cut(p) THEN lost[p] + 1 ELSE lost[p]]
    /\ cuts' = [p \in Paths |-> IF cut(p) THEN cuts[p] \cup {cause} ELSE cuts[p]]
    /\ scan_ready' = {}
    /\ UNCHANGED <<calls, replaced, history, recorded>>

\* a row with signature sig and the given outcome has been committed
HistoryOfRecord(sig, success) ==
    /\ recorded' = [recorded EXCEPT ![sig.path] =
                       IF GetFileSignature(sig.path) = sig
                       THEN (IF success THEN "ok" ELSE "failed")
                       ELSE "none"]
    /\ replaced' = IF \E r \in ledger : r.file_path = sig.path
                   THEN replaced \cup {sig.path} ELSE replaced
    /\ UNCHANGED <<calls, lost, cuts, history, scan_ready>>

(***************************************************************************)
(* The environment.                                                        *)
(***************************************************************************)
\* a recording is created or rewritten: its mtime is the time of the write
WriteFile(p, s) ==
    /\ events < MaxEvents
    /\ fs[p] # [exists |-> TRUE, size |-> s, mtime |-> now]
    /\ fs' = [fs EXCEPT ![p] = [exists |-> TRUE, size |-> s, mtime |-> now]]
    /\ events' = events + 1
    /\ HistoryOfChange({p})
    /\ UNCHANGED <<now, tz, ledger, loopVars, scanVars, outVars, probe>>
    /\ UNCHANGED <<scan_start, asked, threads, scan_log, cleanup>>

\* a recording vanishes (or can no longer be stat'ed)
DeleteFile(p) ==
    /\ events < MaxEvents
    /\ fs[p].exists
    /\ fs' = [fs EXCEPT ![p] = NoFile]
    /\ events' = events + 1
    /\ HistoryOfChange({p})
    /\ UNCHANGED <<now, tz, ledger, loopVars, scanVars, outVars, probe>>
    /\ UNCHANGED <<scan_start, asked, threads, scan_log, cleanup>>

\* the local zone changes (daylight saving, travel): every rendered
\* modification time moves with it
ChangeTimezone(z) ==
    /\ events < MaxEvents
    /\ z # tz
    /\ tz' = z
    /\ events' = events + 1
    /\ HistoryOfChange({p \in Paths : fs[p].exists})
    /\ UNCHANGED <<fs, now, ledger, loopVars, scanVars, outVars, probe>>
    /\ UNCHANGED <<scan_start, asked, threads, scan_log, cleanup>>

\* time passes while the program runs or waits
Advance(t) ==
    /\ t > now
    /\ now' = t
    /\ UNCHANGED <<fs, tz, ledger, loopVars, scanVars, outVars, events, histVars,
                   probe>>
    /\ UNCHANGED <<scan_start, asked, threads, scan_log, cleanup>>

(***************************************************************************)
(* start_continuous_monitoring, up to the loop.                            *)
(***************************************************************************)
\* start_continuous_monitoring() is called (by main, or on a thread)
Start ==
    /\ pc = "idle"
    /\ pc' = "begin"
    /\ asked' = {}
    /\ UNCHANGED <<envVars, ledger, running, scanVars, outVars, events, histVars,
                   probe>>
    /\ UNCHANGED <<scan_start, threads, scan_log, cleanup>>

\* self.running = True: a stop_monitoring call made before it leaves no trace
SetRunning ==
    /\ pc = "begin"
    /\ running' = TRUE
    /\ asked' = {}
    /\ pc' = "stats"
    /\ UNCHANGED <<envVars, ledger, scanVars, outVars, events, histVars, probe>>
    /\ UNCHANGED <<scan_start, threads, scan_log, cleanup>>

\* the initial statistics are read from the ledger and logged
ReadStats ==
    /\ pc = "stats"
    /\ pc' = "loop"
    /\ UNCHANGED <<envVars, ledger, running, scanVars, outVars, events, histVars,
                   probe>>
    /\ UNCHANGED <<scan_start, asked, threads, scan_log, cleanup>>

\* reading them raises (sqlite3 error): the statement is outside the try
\* block, the exception leaves start_continuous_monitoring
ReadStatsFails ==
    /\ pc = "stats"
    /\ events < MaxEvents
    /\ events' = events + 1
    /\ pc' = "idle"
    /\ UNCHANGED <<envVars, ledger, running, scanVars, outVars, histVars, probe>>
    /\ UNCHANGED <<scan_start, asked, threads, scan_log, cleanup>>

\* while self.running:
LoopCheck ==
    /\ pc = "loop"
    /\ pc' = IF running THEN "discover" ELSE "finally"
    /\ scan_start' = IF running THEN now ELSE scan_start
    /\ UNCHANGED <<envVars, ledger, running, scanVars, outVars, events, histVars,
                   probe>>
    /\ UNCHANGED <<asked, threads, scan_log, cleanup>>

(***************************************************************************)
(* run_single_scan.                                                        *)
(***************************************************************************)
\* the dictionaries run_single_scan returns: kind "empty" has the keys
\* success, files_found, files_processed and scan_time, kind "done" has
\* files_failed as well, kind "failed" has success, error and scan_time
ScanReturn(kind, success, found, processed, failed, error) ==
    [kind |-> kind, success |-> success, files_found |-> found,
     files_processed |-> processed, files_failed |-> failed, error |-> error,
     scan_time |-> now - scan_start]

\* the age window, read off the file system and the clock
InWindow(p) ==
    /\ fs[p].exists
    /\ now - fs[p].mtime >= min_file_age
    /\ now - fs[p].mtime <= MaxAge

\* new_files = self.discover_new_files(), and the empty case's return, for
\* the lists self.audio_processor.discover_audio_files() may return
DiscoverFrom(lists) ==
    /\ pc = "discover"
    /\ \E all_files \in lists :
         LET found == DiscoverNewFiles(all_files) IN
         IF found = <<>>
         THEN /\ scan_result' = ScanReturn("empty", TRUE, 0, 0, 0, "NULL")
              /\ scan_start' = 0
              /\ pc' = "after_scan"
              /\ UNCHANGED <<new_files, idx>>
         ELSE /\ new_files' = found
              /\ idx' = 1
              /\ pc' = "process"
              /\ UNCHANGED <<scan_result, scan_start>>
    /\ scan_ready' = {p \in Paths : InWindow(p)}
    /\ UNCHANGED <<envVars, ledger, running, signature, result, processed_count,
                   failed_count, returned, events, calls, lost, cuts, replaced, history, recorded, probe>>
    /\ UNCHANGED <<asked, threads, scan_log, cleanup>>

Discover == DiscoverFrom(DiscoverAudioFiles)

\* run_single_scan without its except block: the exception reaches the loop
DiscoverFailsEscapes ==
    /\ pc = "discover"
    /\ events < MaxEvents
    /\ events' = events + 1
    /\ scan_start' = 0
    /\ pc' = "finally"
    /\ UNCHANGED <<envVars, ledger, running, scanVars, outVars, histVars, probe>>
    /\ UNCHANGED <<asked, threads, scan_log, cleanup>>

\* discovery raises (the adapter, or a ledger lookup): except Exception of
\* run_single_scan returns the failed scan
DiscoverFails ==
    /\ pc = "discover"
    /\ events < MaxEvents
    /\ events' = events + 1
    /\ scan_result' = ScanReturn("failed", FALSE, 0, 0, 0, "Scan failed: discovery error")
    /\ scan_start' = 0
    /\ pc' = "after_scan"
    /\ UNCHANGED <<envVars, ledger, running, scanVars, returned, histVars, probe>>
    /\ UNCHANGED <<asked, threads, scan_log, cleanup>>

\* an entry of scan_log: the callback was invoked with the path, a
\* mark_processed call for the path committed, process_file returned
Logged(op, path, success) == [op |-> op, path |-> path, success |-> success]

\* process_file returns r for new_files[idx], after a committed
\* mark_processed call (wrote) or without one
LogOfReturn(r, wrote) ==
    (IF wrote THEN Append(scan_log, Logged("write", new_files[idx], r.success))
     ELSE scan_log) \o <<Logged("return", new_files[idx], r.success)>>

\* the for loop left as soon as self.running is False
NextFileUnlessStopped(r, wrote) ==
    LET processed == IF r.success THEN processed_count + 1 ELSE processed_count
        failed == IF r.success THEN failed_count ELSE failed_count + 1
    IN  /\ returned' = r
        /\ scan_log' = LogOfReturn(r, wrote)
        /\ signature' = NoSignature
        /\ result' = NoResult
        /\ IF idx < Len(new_files) /\ running
           THEN /\ idx' = idx + 1
                /\ processed_count' = processed
                /\ failed_count' = failed
                /\ pc' = "process"
                /\ UNCHANGED <<new_files, scan_result, scan_start>>
           ELSE /\ scan_result' =
                      ScanReturn("done", TRUE, Len(new_files), processed, failed,
                                 "NULL")
                /\ scan_start' = 0
                /\ new_files' = <<>>
                /\ idx' = 0
                /\ processed_count' = 0
                /\ failed_count' = 0
                /\ pc' = "after_scan"

\* the for loop handing the same entry to process_file again
NextFileRepeats(r, wrote) ==
    /\ returned' = r
    /\ scan_log' = LogOfReturn(r, wrote)
    /\ signature' = NoSignature
    /\ result' = NoResult
    /\ pc' = "process"
    /\ UNCHANGED <<new_files, idx, processed_count, failed_count, scan_result,
                   scan_start>>

\* the for loop without its else branch: failures are not counted
NextFileCountsSuccessOnly(r, wrote) ==
    LET processed == IF r.success THEN processed_count + 1 ELSE processed_count
        failed == failed_count
    IN  /\ returned' = r
        /\ scan_log' = LogOfReturn(r, wrote)
        /\ signature' = NoSignature
        /\ result' = NoResult
        /\ IF idx < Len(new_files)
           THEN /\ idx' = idx + 1
                /\ processed_count' = processed
                /\ failed_count' = failed
                /\ pc' = "process"
                /\ UNCHANGED <<new_files, scan_result, scan_start>>
           ELSE /\ scan_result' =
                      ScanReturn("done", TRUE, Len(new_files), processed, failed,
                                 "NULL")
                /\ scan_start' = 0
                /\ new_files' = <<>>
                /\ idx' = 0
                /\ processed_count' = 0
                /\ failed_count' = 0
                /\ pc' = "after_scan"

\* process_file has returned r for new_files[idx]: the counts are updated and
\* the for loop goes on, or run_single_scan returns
NextFile(r, wrote) ==
    LET processed == IF r.success THEN processed_count + 1 ELSE processed_count
        failed == IF r.success THEN failed_count ELSE failed_count + 1
    IN  /\ returned' = r
        /\ scan_log' = LogOfReturn(r, wrote)
        /\ signature' = NoSignature
        /\ result' = NoResult
        /\ IF idx < Len(new_files)
           THEN /\ idx' = idx + 1
                /\ processed_count' = processed
                /\ failed_count' = failed
                /\ pc' = "process"
                /\ UNCHANGED <<new_files, scan_result, scan_start>>
           ELSE /\ scan_result' =
                      ScanReturn("done", TRUE, Len(new_files), processed, failed,
                                 "NULL")
                /\ scan_start' = 0
                /\ new_files' = <<>>
                /\ idx' = 0
                /\ processed_count' = 0
                /\ failed_count' = 0
                /\ pc' = "after_scan"

\* the locals of a scan that is over
ScanVarsReset ==
    /\ new_files' = <<>>
    /\ idx' = 0
    /\ signature' = NoSignature
    /\ result' = NoResult
    /\ processed_count' = 0
    /\ failed_count' = 0
    /\ scan_start' = 0
    /\ scan_log' = <<>>

(***************************************************************************)
(* process_file.                                                           *)
(***************************************************************************)
ProcessReturn(success, error) ==
    [kind |-> "returned", success |-> success, error |-> error]

\* a failed row written under the bare path
LedgerMarksMissingFile(L, path) ==
    MarkProcessed(L, path, 0, 0, FALSE, "Could not get file signature")

\* the signature cannot be obtained: process_file returns before any
\* mark_processed call, the ledger is as it was
LedgerWithoutSignature(L, path) == L

\* signature = self._get_file_signature(file_path) is None
ProcessFileNoSignature ==
    /\ pc = "process"
    /\ ~GetFileSignature(new_files[idx]).ok
    /\ ledger' = LedgerWithoutSignature(ledger, new_files[idx])
    /\ NextFile(ProcessReturn(FALSE, "Could not get file signature"), FALSE)
    /\ UNCHANGED <<envVars, running, events, histVars, probe>>
    /\ UNCHANGED <<asked, threads, cleanup>>

\* the signature is taken and self.processor_callback(file_path) is called
InvokeCallback ==
    /\ pc = "process"
    /\ GetFileSignature(new_files[idx]).ok
    /\ signature' = GetFileSignature(new_files[idx])
    /\ calls' = [calls EXCEPT ![new_files[idx]] =
                    IF Tracked(new_files[idx]) THEN @ + 1 ELSE @]
    /\ returned' = NoReturn
    /\ scan_log' = Append(scan_log, Logged("callback", new_files[idx], FALSE))
    /\ pc' = "callback"
    /\ UNCHANGED <<envVars, ledger, running, new_files, idx, result,
                   processed_count, failed_count, scan_result, events, lost,
                   cuts, replaced, history, recorded, scan_ready,
                   probe>>
    /\ UNCHANGED <<scan_start, asked, threads, cleanup>>

\* what the callback may return
CallbackResults ==
    {[success |-> TRUE, error |-> "NULL"],
     [success |-> FALSE, error |-> "callback error"]}

CallbackReturns(r) ==
    /\ pc = "callback"
    /\ result' = r
    /\ pc' = "mark"
    /\ UNCHANGED <<envVars, ledger, running, new_files, idx, signature,
                   processed_count, failed_count, outVars, events, histVars, probe>>
    /\ UNCHANGED <<scan_start, asked, threads, scan_log, cleanup>>

\* the callback raises: control is in the except Exception block
CallbackRaises ==
    /\ pc = "callback"
    /\ result' = [success |-> FALSE, error |-> "callback exception"]
    /\ pc' = "mark_exc"
    /\ UNCHANGED <<envVars, ledger, running, new_files, idx, signature,
                   processed_count, failed_count, outVars, events, histVars, probe>>
    /\ UNCHANGED <<scan_start, asked, threads, scan_log, cleanup>>

\* the write put off: process_file returns before the row is committed
MarkResultDeferred ==
    /\ pc = "mark"
    /\ NextFile(ProcessReturn(result.success, result.error), FALSE)
    /\ UNCHANGED <<envVars, ledger, running, events, histVars, probe>>
    /\ UNCHANGED <<asked, threads, cleanup>>

\* self.tracker.mark_processed(..., success, error_message) in the try block
MarkResult ==
    /\ pc = "mark"
    /\ ledger' = MarkProcessed(ledger, signature.path, signature.size,
                               signature.mtime, result.success,
                               IF result.success THEN "NULL" ELSE result.error)
    /\ HistoryOfRecord(signature, result.success)
    /\ NextFile(ProcessReturn(result.success, result.error), TRUE)
    /\ UNCHANGED <<envVars, running, events, probe>>
    /\ UNCHANGED <<asked, threads, cleanup>>

\* it raises (sqlite3 error): control is in the except Exception block
MarkResultFails ==
    /\ pc = "mark"
    /\ events < MaxEvents
    /\ events' = events + 1
    /\ result' = [result EXCEPT !.error = "ledger error"]
    /\ pc' = "mark_exc"
    /\ UNCHANGED <<envVars, ledger, running, new_files, idx, signature,
                   processed_count, failed_count, outVars, histVars, probe>>
    /\ UNCHANGED <<scan_start, asked, threads, scan_log, cleanup>>

\* the except block returning the failure without the ledger write
MarkFailureSkipsLedger ==
    /\ pc = "mark_exc"
    /\ NextFile(ProcessReturn(FALSE, result.error), FALSE)
    /\ UNCHANGED <<envVars, ledger, running, events, histVars, probe>>
    /\ UNCHANGED <<asked, threads, cleanup>>

\* the except block raising again after the ledger write
MarkFailureAbortsScan ==
    /\ pc = "mark_exc"
    /\ ledger' = MarkProcessed(ledger, signature.path, signature.size,
                               signature.mtime, FALSE, result.error)
    /\ HistoryOfRecord(signature, FALSE)
    /\ ScanVarsReset
    /\ scan_result' = ScanReturn("failed", FALSE, 0, 0, 0, "Scan failed: callback exception")
    /\ pc' = "after_scan"
    /\ UNCHANGED <<envVars, running, returned, events, probe>>
    /\ UNCHANGED <<asked, threads, cleanup>>

\* self.tracker.mark_processed(..., False, error_msg) in the except block
MarkFailure ==
    /\ pc = "mark_exc"
    /\ ledger' = MarkProcessed(ledger, signature.path, signature.size,
                               signature.mtime, FALSE, result.error)
    /\ HistoryOfRecord(signature, FALSE)
    /\ NextFile(ProcessReturn(FALSE, result.error), TRUE)
    /\ UNCHANGED <<envVars, running, events, probe>>
    /\ UNCHANGED <<asked, threads, cleanup>>

\* the exception of the second mark_processed reaching the loop
MarkFailureFailsEndsLoop ==
    /\ pc = "mark_exc"
    /\ events < MaxEvents
    /\ events' = events + 1
    /\ HistoryOfAbandon("ledger")
    /\ ScanVarsReset
    /\ pc' = "finally"
    /\ UNCHANGED <<envVars, ledger, running, outVars, probe>>
    /\ UNCHANGED <<asked, threads, cleanup>>

\* it raises too: the exception leaves process_file, and except Exception
\* of run_single_scan returns the failed scan
MarkFailureFails ==
    /\ pc = "mark_exc"
    /\ events < MaxEvents
    /\ events' = events + 1
    /\ HistoryOfAbandon("ledger")
    /\ ScanVarsReset
    /\ scan_result' = ScanReturn("failed", FALSE, 0, 0, 0, "Scan failed: ledger error")
    /\ pc' = "after_scan"
    /\ UNCHANGED <<envVars, ledger, running, returned, probe>>
    /\ UNCHANGED <<asked, threads, cleanup>>

(***************************************************************************)
(* The loop of start_continuous_monitoring, and its ends.                  *)
(***************************************************************************)
\* if self.running: after run_single_scan has returned; the loop drops the
\* scan's result
AfterScan ==
    /\ pc = "after_scan"
    /\ pc' = IF running THEN "sleep" ELSE "loop"
    /\ returned' = NoReturn
    /\ scan_result' = NoScan
    /\ scan_ready' = {}
    /\ scan_log' = <<>>
    /\ UNCHANGED <<envVars, ledger, running, scanVars, events, calls, lost,
                   cuts, replaced, history, recorded, probe>>
    /\ UNCHANGED <<scan_start, asked, threads, cleanup>>

\* time.sleep(self.config.polling_interval) returns: at least the interval
\* has passed
Sleep(t) ==
    /\ pc = "sleep"
    /\ t >= now + polling_interval
    /\ now' = t
    /\ pc' = "loop"
    /\ UNCHANGED <<fs, tz, ledger, running, scanVars, outVars, events, histVars,
                   probe>>
    /\ UNCHANGED <<scan_start, asked, threads, scan_log, cleanup>>

\* finally: self.running = False, and start_continuous_monitoring returns
Finally ==
    /\ pc = "finally"
    /\ running' = FALSE
    /\ pc' = "idle"
    /\ UNCHANGED <<envVars, ledger, scanVars, outVars, events, histVars, probe>>
    /\ UNCHANGED <<scan_start, asked, threads, scan_log, cleanup>>

\* stop_monitoring(), called from another thread at any time (calls that
\* change nothing are left out)
StopMonitoring ==
    /\ running \/ "stop" \notin asked
    /\ running' = FALSE
    /\ asked' = asked \cup {"stop"}
    /\ UNCHANGED <<envVars, ledger, pc, scanVars, outVars, events, histVars,
                   probe>>
    /\ UNCHANGED <<scan_start, threads, scan_log, cleanup>>

\* where control is inside the try block of start_continuous_monitoring
InTry ==
    pc \in {"loop", "discover", "process", "callback", "mark", "mark_exc",
            "after_scan", "sleep"}

\* KeyboardInterrupt raised inside the try block: no except Exception
\* catches it on the way, except KeyboardInterrupt of the loop does
Interrupt ==
    /\ InTry
    /\ events < MaxEvents
    /\ events' = events + 1
    /\ HistoryOfAbandon("interrupt")
    /\ asked' = asked \cup {"interrupt"}
    /\ ScanVarsReset
    /\ returned' = NoReturn
    /\ scan_result' = NoScan
    /\ pc' = "finally"
    /\ UNCHANGED <<envVars, ledger, running, probe>>
    /\ UNCHANGED <<threads, cleanup>>

\* KeyboardInterrupt raised before the try block is entered: it leaves
\* start_continuous_monitoring
InterruptBeforeLoop ==
    /\ pc \in {"begin", "stats"}
    /\ events < MaxEvents
    /\ events' = events + 1
    /\ asked' = asked \cup {"interrupt"}
    /\ pc' = "idle"
    /\ UNCHANGED <<envVars, ledger, running, scanVars, outVars, histVars, probe>>
    /\ UNCHANGED <<scan_start, threads, scan_log, cleanup>>

\* the process is killed and started again on the same ledger file:
\* __init__ runs, _init_database keeps the committed rows
KillAndRestart ==
    /\ pc # "idle"
    /\ events < MaxEvents
    /\ events' = events + 1
    /\ HistoryOfAbandon("kill")
    /\ asked' = {"kill"}
    /\ ScanVarsReset
    /\ ledger' = InitDatabase(ledger)
    /\ running' = FALSE
    /\ pc' = "idle"
    /\ returned' = NoReturn
    /\ scan_result' = NoScan
    /\ UNCHANGED <<envVars, probe>>
    /\ UNCHANGED <<threads, cleanup>>

Next ==
    \/ \E p \in Paths, s \in Sizes : WriteFile(p, s)
    \/ \E p \in Paths : DeleteFile(p)
    \/ \E z \in TzOffsets : ChangeTimezone(z)
    \/ \E t \in Instants : Advance(t)
    \/ Start
    \/ SetRunning
    \/ ReadStats
    \/ ReadStatsFails
    \/ LoopCheck
    \/ Discover
    \/ DiscoverFails
    \/ ProcessFileNoSignature
    \/ InvokeCallback
    \/ \E r \in CallbackResults : CallbackReturns(r)
    \/ CallbackRaises
    \/ MarkResult
    \/ MarkResultFails
    \/ MarkFailure
    \/ MarkFailureFails
    \/ AfterScan
    \/ \E t \in Instants : Sleep(t)
    \/ Finally
    \/ StopMonitoring
    \/ Interrupt
    \/ InterruptBeforeLoop
    \/ KillAndRestart

Spec == Init /\ [][Next]_vars

(***************************************************************************)
(* The readiness filter on its own: files of every age around the two      *)
(* thresholds, and files that cannot be stat'ed.                           *)
(***************************************************************************)
\* modification times run from 0 to MaxMtime
MaxMtime == 2
\* the clock is read up to MaxSkew seconds past each threshold
MaxSkew == 2

ProbeNows ==
    {0} \cup {min_file_age + d : d \in -1..MaxSkew}
        \cup {MaxAge + d : d \in -1..MaxSkew}

InitReady ==
    /\ fs \in [Paths -> {NoFile} \cup
                 {[exists |-> TRUE, size |-> 1, mtime |-> m] : m \in 0..MaxMtime}]
    /\ now \in ProbeNows
    /\ tz = 0
    /\ ledger = {}
    /\ threads = NoThreads
    /\ Constructed
    /\ NoHistory

\* _is_file_ready(path), called on its own
CheckReady(p) ==
    /\ probe' = [path |-> p, result |-> IsFileReady(p)]
    /\ UNCHANGED <<envVars, ledger, loopVars, scanVars, outVars, events, histVars>>
    /\ UNCHANGED <<scan_start, asked, threads, scan_log, cleanup>>

NextReady == \E p \in Paths : CheckReady(p)

SpecReady == InitReady /\ [][NextReady]_vars

(***************************************************************************)
(* The readiness filter: C8, C9.                                           *)
(***************************************************************************)
Probed == probe.path \in Paths
ProbedAge == now - fs[probe.path].mtime

\* C8: _is_file_ready returns True exactly when the file can be stat'ed and
\* min_file_age <= now - mtime <= max_file_age; it returns False below the
\* minimum age, above the maximum age and when the file cannot be stat'ed,
\* and it always returns a boolean.
ReadyIffInsideWindow ==
    Probed =>
        /\ probe.result \in BOOLEAN
        /\ probe.result = InWindow(probe.path)
        /\ ~fs[probe.path].exists => probe.result = FALSE
        /\ (fs[probe.path].exists /\ ProbedAge < min_file_age) => probe.result = FALSE
        /\ (fs[probe.path].exists /\ ProbedAge > MaxAge) => probe.result = FALSE

\* a file aged exactly min_file_age has been found ready
ReadyAtMinimumAge ==
    /\ Probed
    /\ fs[probe.path].exists
    /\ ProbedAge = min_file_age
    /\ probe.result = TRUE

\* C9 as stated: excluded one second under min_file_age, included at
\* min_file_age, excluded at exactly max_file_age, included one second
\* under max_file_age.
AgeBoundariesAsClaimed ==
    (Probed /\ fs[probe.path].exists) =>
        /\ ProbedAge = min_file_age - 1 => probe.result = FALSE
        /\ ProbedAge = min_file_age => probe.result = TRUE
        /\ ProbedAge = MaxAge => probe.result = FALSE
        /\ ProbedAge = MaxAge - 1 => probe.result = TRUE

\* C9 amended: excluded one second under min_file_age, included at
\* min_file_age, included one second under max_file_age and at exactly
\* max_file_age, excluded one second over max_file_age.
AgeBoundaries ==
    (Probed /\ fs[probe.path].exists) =>
        /\ ProbedAge = min_file_age - 1 => probe.result = FALSE
        /\ ProbedAge = min_file_age => probe.result = TRUE
        /\ ProbedAge = MaxAge - 1 => probe.result = TRUE
        /\ ProbedAge = MaxAge => probe.result = TRUE
        /\ ProbedAge = MaxAge + 1 => probe.result = FALSE

\* a file aged exactly max_file_age has been found ready
ReadyAtMaximumAge ==
    /\ Probed
    /\ fs[probe.path].exists
    /\ ProbedAge = MaxAge
    /\ probe.result = TRUE

(***************************************************************************)
(* Ledger lookups and discovery: C2, C3, C5, C7.                           *)
(***************************************************************************)
Range(seq) == {seq[i] : i \in 1..Len(seq)}

\* discover_new_files, run now, would return the path
\* (the adapter lists the path, in whatever order, and the path passes the
\* tests of the loop over the list)
Discoverable(p) == Stat(p).exists /\ IsNewFile(p)

\* the path is still to be handed to process_file by the scan under way
Queued(p) == pc = "process" /\ \E i \in idx..Len(new_files) : new_files[i] = p

RowsOf(p) == {r \in ledger : r.file_path = p}

\* the path has a row whose modification time is not the file's present one
MtimeChangedSinceRecord(p) ==
    /\ fs[p].exists
    /\ \E r \in RowsOf(p) : r.modification_time # IsoFormat(fs[p].mtime)

\* every modification-time string the model can produce
ModStrings == {IsoFormatIn(t, z) : t \in Instants, z \in TzOffsets}

\* an empty scan has just ended, with a ready file whose record is outcome
EmptyScanOver(outcome) ==
    /\ pc = "after_scan"
    /\ scan_result.kind = "empty"
    /\ \E p \in Paths : recorded[p] = outcome /\ IsFileReady(p)

\* C2: once process_file has recorded a successful outcome for a file, no
\* later discover_new_files returns the file while its (path, size,
\* modified_at) stays as recorded.
SuccessIsNotRediscovered ==
    \A p \in Paths : recorded[p] = "ok" => ~Discoverable(p)

\* a scan over an unchanged, ready, successfully recorded file found nothing
SecondScanFindsNothing == EmptyScanOver("ok")

\* C3 as stated: a file with a ledger record whose modification-time string
\* has changed is returned by the next discover_new_files.
ChangedMtimeIsRediscovered ==
    \A p \in Paths : MtimeChangedSinceRecord(p) => Discoverable(p)

\* C3 amended: such a file is returned by the next discover_new_files if
\* and only if it is ready then (its age lies inside the window).
ChangedMtimeIsRediscoveredWhenReady ==
    \A p \in Paths : MtimeChangedSinceRecord(p) => (Discoverable(p) <=> InWindow(p))

\* a scan has discovered a file whose modification time is not the recorded one
ChangedFileDiscovered ==
    /\ pc = "process"
    /\ \E p \in Range(new_files) : MtimeChangedSinceRecord(p) /\ InWindow(p)

\* C5: once process_file has recorded a failed outcome for a file, the file
\* is neither discovered nor passed to the callback again while its (path,
\* size, modified_at) stays as recorded.
FailureIsNotRetried ==
    \A p \in Paths :
        recorded[p] = "failed" =>
            /\ ~Discoverable(p)
            /\ ~Queued(p)
            /\ ~(InFlight /\ signature.path = p)

\* a scan over an unchanged, ready file recorded as failed found nothing
FailedFileLeftAlone == EmptyScanOver("failed")

\* C7: is_processed is true if and only if the ledger holds a row whose
\* path, size and modification time all equal the signature's; it is false
\* when the path has a row with another size or another modification time.
ExistsIffSignatureMatches ==
    \A p \in Paths :
        LET rows == RowsOf(p) IN
        \A s \in Sizes, m \in ModStrings :
            LET exists == IsProcessed(ledger, p, s, m) IN
            /\ exists <=> \E r \in rows : r.file_size = s /\ r.modification_time = m
            /\ (\E r \in rows : r.file_size # s \/ r.modification_time # m)
                   => ~exists

\* a scan has discovered a file whose row holds another size
ResizedFileDiscovered ==
    /\ pc = "process"
    /\ \E p \in Range(new_files) :
        /\ fs[p].exists
        /\ \E r \in RowsOf(p) : r.file_size # fs[p].size
        /\ ~IsProcessed(ledger, p, fs[p].size, IsoFormat(fs[p].mtime))

(***************************************************************************)
(* The ledger's key and process_file without a signature: C6, C10.         *)
(***************************************************************************)
UniqueKey == \A p \in Paths : Cardinality(RowsOf(p)) <= 1

\* a mark_processed call of process_file commits
UpsertStep == pc \in {"mark", "mark_exc"} /\ returned'.kind = "returned"

\* the row the call writes
UpsertRow ==
    LET success == pc = "mark" /\ result.success IN
    Row(signature.path, signature.size, signature.mtime, IsoFormat(now), success,
        IF success THEN "NULL" ELSE result.error)

UpsertReplaces ==
    LET p == signature.path IN
    /\ UpsertRow \in ledger'
    /\ \A r \in ledger' : r.file_path = p => r = UpsertRow
    /\ {r \in ledger' : r.file_path # p} = {r \in ledger : r.file_path # p}
    /\ Cardinality(ledger') =
           IF RowsOf(p) = {} THEN Cardinality(ledger) + 1 ELSE Cardinality(ledger)

\* C6: the ledger holds at most one row per path in every reachable state,
\* and mark_processed for a path that has a row replaces the row wholesale
\* (size, modification time, processed time, success, error message)
\* whatever the old and the new outcome, the number of rows staying the same.
LedgerKeyedByPath == []UniqueKey /\ [][UpsertStep => UpsertReplaces]_vars

\* the row of some path has been replaced
RowReplaced == \E p \in replaced : Cardinality(RowsOf(p)) = 1

NoSignatureReturn == ProcessReturn(FALSE, "Could not get file signature")

\* process_file acts on a file whose signature cannot be obtained
NoSignatureStep ==
    /\ pc = "process"
    /\ ~GetFileSignature(new_files[idx]).ok
    /\ pc' \in {"process", "after_scan", "callback"}
    /\ <<pc, idx>>' # <<pc, idx>>

\* C10: when the signature cannot be obtained process_file writes no ledger
\* row: it returns a failure, the callback is not invoked, the ledger is
\* unchanged, and the scan counts the file as failed.
NoLedgerWriteWithoutSignature ==
    [][NoSignatureStep =>
          /\ ledger' = ledger
          /\ pc' # "callback"
          /\ calls' = calls
          /\ returned' = NoSignatureReturn
          /\ pc' = "process" => failed_count' = failed_count + 1
          /\ pc' = "after_scan" =>
                 /\ scan_result'.files_failed = failed_count + 1
                 /\ scan_result'.files_processed = processed_count]_vars

\* a file vanished between discovery and process_file, and has no row
VanishedFileHasNoRow ==
    /\ returned = NoSignatureReturn
    /\ \E p \in Paths : ~fs[p].exists /\ history[p] = "changed" /\ RowsOf(p) = {}

(***************************************************************************)
(* Exactly-once ingestion and kill/restart: C1, C4.                        *)
(***************************************************************************)
\* the ledger holds a row with the file's present signature
HasMatchingRow(p) ==
    /\ fs[p].exists
    /\ \E r \in RowsOf(p) : /\ r.file_size = fs[p].size
                            /\ r.modification_time = IsoFormat(fs[p].mtime)

\* C1 as stated, for runs without kill or interrupt: a recording that keeps
\* its (path, size, modified_at) is passed to the callback once at most.
ExactlyOnce ==
    \A p \in Paths : (Tracked(p) /\ cuts[p] \subseteq {"ledger"}) => calls[p] <= 1

\* C1 amended: a recording that keeps its (path, size, modified_at) is
\* passed to the callback by the first scan that runs discovery while the
\* file is inside the age window and ends without a scan-level failure, and
\* it is passed again only after an attempt whose ledger write did not
\* complete: at most once more for each such attempt.
OncePerCompletedWrite ==
    /\ \A p \in Paths : Tracked(p) => calls[p] <= 1 + lost[p]
    /\ (pc = "after_scan" /\ scan_result.success) =>
           \A p \in scan_ready : Tracked(p) => calls[p] >= 1

\* an unchanged file was passed again after a ledger error, and recorded
PassedAgainAfterLedgerError ==
    \E p \in Paths :
        /\ Tracked(p)
        /\ calls[p] = 2
        /\ lost[p] = 1
        /\ cuts[p] = {"ledger"}
        /\ recorded[p] # "none"

\* C4 as stated, for runs whose only disturbance is the kill: no file
\* already passed to the callback is passed to it again.
KillNeverRepeats ==
    \A p \in Paths : (Tracked(p) /\ cuts[p] \subseteq {"kill"}) => calls[p] <= 1

\* C4 amended: after a kill and a restart on the same ledger file, a file is
\* passed to the callback again only if its callback had been invoked and
\* its ledger write had not been committed when the process was killed; a
\* file whose row was committed is not discovered again while it keeps its
\* signature, and every ready file without a matching row is discovered.
KillRestartSafety ==
    \A p \in Paths :
        /\ (Tracked(p) /\ cuts[p] \subseteq {"kill"}) => calls[p] <= 1 + lost[p]
        /\ recorded[p] # "none" => (HasMatchingRow(p) /\ ~Discoverable(p))
        /\ (InWindow(p) /\ ~HasMatchingRow(p)) => Discoverable(p)

\* an unchanged file was passed again after a kill cut its attempt short,
\* and recorded
PassedAgainAfterKill ==
    \E p \in Paths :
        /\ Tracked(p)
        /\ calls[p] = 2
        /\ lost[p] = 1
        /\ cuts[p] = {"kill"}
        /\ recorded[p] # "none"

(***************************************************************************)
(* Fault boundaries of process_file, run_single_scan and the loop:         *)
(* C11 to C15.                                                             *)
(***************************************************************************)
\* where control is inside run_single_scan
ScanPcs == {"discover", "process", "callback", "mark", "mark_exc"}

\* a step of the thread running the loop that is no disturbance
Undisturbed == pc' # pc /\ events' = events

\* a step in which a ledger call or the discovery raises
Fault == events' = events + 1 /\ envVars' = envVars /\ asked' = asked

\* the except block of process_file holds an exception of the callback
HandlingCallbackFault == pc = "mark_exc" /\ result.error = "callback exception"

\* C11: an exception raised by the callback is caught in process_file: control
\* passes to the except block with the exception's text, which writes a row
\* with success false for the signature taken before the call and returns a
\* failure carrying that text; the scan is not failed by it.
CallbackFaultIsCaught ==
    [][/\ (pc = "callback" /\ Undisturbed) =>
              /\ pc' \in {"mark", "mark_exc"}
              /\ ledger' = ledger
              /\ scan_result' = scan_result
       /\ (HandlingCallbackFault /\ Undisturbed) =>
              /\ returned' = ProcessReturn(FALSE, "callback exception")
              /\ Row(signature.path, signature.size, signature.mtime,
                     IsoFormat(now), FALSE, "callback exception") \in ledger'
              /\ pc' \in {"process", "after_scan"}
              /\ pc' = "after_scan" => scan_result'.success]_vars

\* process_file has returned the failure of a raising callback, and the row
\* is in the ledger
CallbackFaultRecorded ==
    /\ returned = ProcessReturn(FALSE, "callback exception")
    /\ \E r \in ledger : ~r.success /\ r.error_message = "callback exception"

\* C12: when the callback raises for a file of a scan, the next file of the
\* list is handed to process_file and, its signature obtained, to the
\* callback in the same scan; the failure is counted, the count is kept to
\* the end of the scan, and the scan returns success true with
\* files_failed >= 1.
CallbackFaultIsIsolated ==
    [][/\ (HandlingCallbackFault /\ Undisturbed /\ idx < Len(new_files)) =>
              /\ pc' = "process"
              /\ idx' = idx + 1
              /\ new_files' = new_files
              /\ failed_count' = failed_count + 1
       /\ (pc = "process" /\ GetFileSignature(new_files[idx]).ok /\ Undisturbed) =>
              /\ pc' = "callback"
              /\ signature'.path = new_files[idx]
              /\ failed_count' = failed_count
       /\ (pc \in ScanPcs /\ pc' \in ScanPcs /\ events' = events) =>
              failed_count' >= failed_count
       /\ (pc \in ScanPcs /\ pc' = "after_scan" /\ events' = events) =>
              /\ scan_result'.success
              /\ scan_result'.files_failed >= failed_count
              /\ HandlingCallbackFault => scan_result'.files_failed >= 1]_vars

\* a scan of two files is over: the callback raised for the first, the
\* second was processed
SecondFileProcessedAfterFault ==
    /\ pc = "after_scan"
    /\ scan_result.kind = "done"
    /\ scan_result.success
    /\ scan_result.files_found = 2
    /\ scan_result.files_failed = 1
    /\ scan_result.files_processed = 1
    /\ returned.success
    /\ \E r \in ledger : r.error_message = "callback exception"

\* C13: when discovery raises, run_single_scan does not raise: it returns a
\* result with success false, the error and the time elapsed since the scan
\* began, and the loop is where it is after every scan.
ScanFaultBoundary ==
    [][(pc = "discover" /\ Fault) =>
           /\ pc' = "after_scan"
           /\ scan_result'.kind = "failed"
           /\ scan_result'.success = FALSE
           /\ scan_result'.error = "Scan failed: discovery error"
           /\ scan_result'.scan_time = now - scan_start
           /\ running' = running
           /\ ledger' = ledger]_vars

\* a scan has failed in discovery, some time after it began
DiscoveryFailedScan ==
    /\ pc = "after_scan"
    /\ scan_result.kind = "failed"
    /\ scan_result.error = "Scan failed: discovery error"
    /\ scan_result.scan_time > 0

\* C14: the loop is left only after a termination request (stop_monitoring,
\* an interrupt, a kill).  A raising ledger call or discovery inside the loop
\* leads to the except block of process_file or to a failed scan, and after
\* a scan, failed or not, a running loop sleeps and begins the next scan.
OnlyTerminationEndsLoop ==
    [][/\ (InTry /\ ~InTry') => asked' # {}
       /\ (InTry /\ Fault) =>
              \/ pc' = "mark_exc"
              \/ pc' = "after_scan" /\ scan_result'.kind = "failed"
       /\ (pc = "after_scan" /\ running /\ pc' # pc /\ asked' = asked) =>
              pc' = "sleep"
       /\ (pc = "sleep" /\ pc' # pc /\ asked' = asked) => pc' = "loop"
       /\ (pc = "loop" /\ running /\ pc' # pc /\ asked' = asked) =>
              pc' = "discover"]_vars

\* a scan has begun after a scan that a ledger error failed
ScanAfterFailedScan ==
    /\ running
    /\ pc = "discover"
    /\ asked = {}
    /\ \E p \in Paths : cuts[p] = {"ledger"}

\* C15 as stated: after a mark_processed call that raised for a successful
\* callback, the file is not marked: once process_file is left, discovery
\* returns the file while it is in the age window with the same signature.
FailedUpsertIsReprocessed ==
    [][\A p \in Paths :
           (pc = "mark_exc" /\ result.success /\ signature.path = p /\ pc' # pc) =>
               ((InWindow(p) /\ GetFileSignature(p).ok)' => Discoverable(p)')]_vars

(***************************************************************************)
(* Stopping the loop: C16 to C19.                                          *)
(***************************************************************************)
\* stop_monitoring has been called during the scan under way
StoppedInScan == ~running /\ pc \in ScanPcs

\* C16: a scan during which stop_monitoring is called goes on as it would
\* have: each file of the list is handed to the callback (or found without a
\* signature) and its row written; after the scan the loop does not sleep
\* and does not begin another scan, it ends with running false.
StopDoesNotPreempt ==
    [][/\ (StoppedInScan /\ pc = "process" /\ <<pc', idx'>> # <<pc, idx>>
               /\ events' = events) =>
              IF GetFileSignature(new_files[idx]).ok
              THEN pc' = "callback" /\ signature'.path = new_files[idx]
              ELSE returned' = NoSignatureReturn
       /\ (StoppedInScan /\ pc = "callback" /\ Undisturbed) =>
              pc' \in {"mark", "mark_exc"}
       /\ (StoppedInScan /\ pc \in {"mark", "mark_exc"} /\ Undisturbed) =>
              /\ UpsertRow \in ledger'
              /\ IF idx < Len(new_files)
                 THEN pc' = "process" /\ idx' = idx + 1 /\ new_files' = new_files
                 ELSE /\ pc' = "after_scan"
                      /\ scan_result'.files_found = Len(new_files)
                      /\ scan_result'.files_processed + scan_result'.files_failed
                             = Len(new_files)
       /\ (~running /\ pc = "after_scan" /\ Undisturbed) => pc' = "loop"
       /\ (~running /\ pc = "loop" /\ Undisturbed) => pc' = "finally"
       /\ (pc = "finally" /\ Undisturbed) => (pc' = "idle" /\ ~running')]_vars

\* stop_monitoring was called during a scan of two files, and the callback
\* for the second is running
StoppedScanGoesOn ==
    /\ ~running
    /\ "stop" \in asked
    /\ pc = "callback"
    /\ idx = 2

\* C17 as stated: an interrupt received while a scan is in flight, its files
\* discovered, leaves the scan going.
InterruptFinishesScan ==
    [][(pc \in ScanPcs /\ new_files # <<>> /\ "interrupt" \in asked') =>
           pc' \in ScanPcs]_vars

\* C18 as stated: once stop_monitoring has been called during the sleep, the
\* loop leaves the sleep before the polling interval is over.
StopInterruptsSleep ==
    [][(pc = "sleep" /\ ~running /\ pc' = "loop") =>
           now' < now + polling_interval]_vars

\* C19 as stated, for the ways out of start_continuous_monitoring other
\* than an interrupt: when it is not executing, running is false.
RunningOnlyInsideStart ==
    (pc = "idle" /\ "interrupt" \notin asked) => ~running

(***************************************************************************)
(* Several threads on one monitor: each may call                           *)
(* start_continuous_monitoring, and stop_monitoring is called beside them. *)
(* The threads share self.running, the ledger and the file system; the     *)
(* locals of run_single_scan and process_file are each thread's own.       *)
(***************************************************************************)
\* number of threads that may call start_continuous_monitoring
MaxThreads == 2

Threads == 1..MaxThreads

\* a thread outside start_continuous_monitoring
IdleThread ==
    [pc |-> "idle", new_files |-> <<>>, idx |-> 0, signature |-> NoSignature,
     result |-> NoResult, processed_count |-> 0, failed_count |-> 0]

Th(t) == threads.loops[t]

\* what the thread actions leave alone
ThreadFrame ==
    UNCHANGED <<tz, pc, scanVars, outVars, histVars, probe, scan_start, asked,
                scan_log, cleanup>>

\* two recordings lie ready in the watched folder
InitThreads ==
    /\ fs = [p \in Paths |-> [exists |-> TRUE, size |-> 1, mtime |-> 0]]
    /\ now = min_file_age
    /\ tz = 0
    /\ ledger = {}
    /\ threads = [loops |-> [t \in Threads |-> IdleThread], status |-> NoStatus]
    /\ Constructed
    /\ NoHistory

\* thread t moves to pc value p, the rest of the state as it is
TGoto(t, p) ==
    /\ threads' = [threads EXCEPT !.loops[t].pc = p]
    /\ UNCHANGED <<fs, now, ledger, running, events>>
    /\ ThreadFrame

\* start_continuous_monitoring() is called on thread t
TStart(t) == Th(t).pc = "idle" /\ TGoto(t, "begin")

\* self.running = True
TSetRunning(t) ==
    /\ Th(t).pc = "begin"
    /\ running' = TRUE
    /\ threads' = [threads EXCEPT !.loops[t].pc = "stats"]
    /\ UNCHANGED <<fs, now, ledger, events>>
    /\ ThreadFrame

\* the initial statistics are read
TReadStats(t) == Th(t).pc = "stats" /\ TGoto(t, "loop")

\* reading them raises, before the try block
TReadStatsFails(t) ==
    /\ Th(t).pc = "stats"
    /\ events < MaxEvents
    /\ events' = events + 1
    /\ threads' = [threads EXCEPT !.loops[t].pc = "idle"]
    /\ UNCHANGED <<fs, now, ledger, running>>
    /\ ThreadFrame

\* while self.running:
TLoopCheck(t) ==
    /\ Th(t).pc = "loop"
    /\ TGoto(t, IF running THEN "discover" ELSE "finally")

\* the locals of a scan that has returned
TScanOver(t) ==
    [Th(t) EXCEPT !.pc = "after_scan", !.new_files = <<>>, !.idx = 0,
                  !.signature = NoSignature, !.result = NoResult,
                  !.processed_count = 0, !.failed_count = 0]

\* new_files = self.discover_new_files(), and the empty case's return
TDiscover(t) ==
    /\ Th(t).pc = "discover"
    /\ \E all_files \in DiscoverAudioFiles :
         LET found == DiscoverNewFiles(all_files) IN
         threads' = [threads EXCEPT !.loops[t] =
                        IF found = <<>> THEN TScanOver(t)
                        ELSE [@ EXCEPT !.pc = "process", !.new_files = found,
                                       !.idx = 1]]
    /\ UNCHANGED <<fs, now, ledger, running, events>>
    /\ ThreadFrame

\* discovery raises: run_single_scan returns the failed scan
TDiscoverFails(t) ==
    /\ Th(t).pc = "discover"
    /\ events < MaxEvents
    /\ events' = events + 1
    /\ threads' = [threads EXCEPT !.loops[t] = TScanOver(t)]
    /\ UNCHANGED <<fs, now, ledger, running>>
    /\ ThreadFrame

\* process_file has returned for new_files[idx]: the for loop goes on, or
\* run_single_scan returns
TNextFile(t, success) ==
    IF Th(t).idx < Len(Th(t).new_files)
    THEN [Th(t) EXCEPT !.pc = "process", !.idx = @ + 1,
                       !.signature = NoSignature, !.result = NoResult,
                       !.processed_count = IF success THEN @ + 1 ELSE @,
                       !.failed_count = IF success THEN @ ELSE @ + 1]
    ELSE TScanOver(t)

\* signature = self._get_file_signature(file_path) is None
TProcessFileNoSignature(t) ==
    /\ Th(t).pc = "process"
    /\ ~GetFileSignature(Th(t).new_files[Th(t).idx]).ok
    /\ threads' = [threads EXCEPT !.loops[t] = TNextFile(t, FALSE)]
    /\ UNCHANGED <<fs, now, ledger, running, events>>
    /\ ThreadFrame

\* the signature is taken and self.processor_callback(file_path) is called
TInvokeCallback(t) ==
    /\ Th(t).pc = "process"
    /\ GetFileSignature(Th(t).new_files[Th(t).idx]).ok
    /\ threads' = [threads EXCEPT !.loops[t] =
                      [@ EXCEPT !.pc = "callback",
                                !.signature =
                                    GetFileSignature(Th(t).new_files[Th(t).idx])]]
    /\ UNCHANGED <<fs, now, ledger, running, events>>
    /\ ThreadFrame

TCallbackReturns(t, r) ==
    /\ Th(t).pc = "callback"
    /\ threads' = [threads EXCEPT !.loops[t] = [@ EXCEPT !.pc = "mark", !.result = r]]
    /\ UNCHANGED <<fs, now, ledger, running, events>>
    /\ ThreadFrame

\* the callback raises: control is in the except Exception block
TCallbackRaises(t) ==
    /\ Th(t).pc = "callback"
    /\ threads' = [threads EXCEPT !.loops[t] =
                      [@ EXCEPT !.pc = "mark_exc",
                                !.result = [success |-> FALSE,
                                            error |-> "callback exception"]]]
    /\ UNCHANGED <<fs, now, ledger, running, events>>
    /\ ThreadFrame

\* self.tracker.mark_processed(..., success, error_message) in the try block
TMarkResult(t) ==
    /\ Th(t).pc = "mark"
    /\ ledger' = MarkProcessed(ledger, Th(t).signature.path, Th(t).signature.size,
                               Th(t).signature.mtime, Th(t).result.success,
                               IF Th(t).result.success THEN "NULL"
                               ELSE Th(t).result.error)
    /\ threads' = [threads EXCEPT !.loops[t] = TNextFile(t, Th(t).result.success)]
    /\ UNCHANGED <<fs, now, running, events>>
    /\ ThreadFrame

\* it raises: control is in the except Exception block
TMarkResultFails(t) ==
    /\ Th(t).pc = "mark"
    /\ events < MaxEvents
    /\ events' = events + 1
    /\ threads' = [threads EXCEPT !.loops[t] =
                      [@ EXCEPT !.pc = "mark_exc", !.result.error = "ledger error"]]
    /\ UNCHANGED <<fs, now, ledger, running>>
    /\ ThreadFrame

\* self.tracker.mark_processed(..., False, error_msg) in the except block
TMarkFailure(t) ==
    /\ Th(t).pc = "mark_exc"
    /\ ledger' = MarkProcessed(ledger, Th(t).signature.path, Th(t).signature.size,
                               Th(t).signature.mtime, FALSE, Th(t).result.error)
    /\ threads' = [threads EXCEPT !.loops[t] = TNextFile(t, FALSE)]
    /\ UNCHANGED <<fs, now, running, events>>
    /\ ThreadFrame

\* it raises too: run_single_scan returns the failed scan
TMarkFailureFails(t) ==
    /\ Th(t).pc = "mark_exc"
    /\ events < MaxEvents
    /\ events' = events + 1
    /\ threads' = [threads EXCEPT !.loops[t] = TScanOver(t)]
    /\ UNCHANGED <<fs, now, ledger, running>>
    /\ ThreadFrame

\* if self.running: after run_single_scan has returned
TAfterScan(t) ==
    /\ Th(t).pc = "after_scan"
    /\ TGoto(t, IF running THEN "sleep" ELSE "loop")

\* time.sleep(self.config.polling_interval) returns
TSleep(t, n) ==
    /\ Th(t).pc = "sleep"
    /\ n >= now + polling_interval
    /\ now' = n
    /\ threads' = [threads EXCEPT !.loops[t].pc = "loop"]
    /\ UNCHANGED <<fs, ledger, running, events>>
    /\ ThreadFrame

\* finally: self.running = False, and start_continuous_monitoring returns
TFinally(t) ==
    /\ Th(t).pc = "finally"
    /\ running' = FALSE
    /\ threads' = [threads EXCEPT !.loops[t].pc = "idle"]
    /\ UNCHANGED <<fs, now, ledger, events>>
    /\ ThreadFrame

NextThreads ==
    \/ \E p \in Paths : DeleteFile(p)
    \/ StopMonitoring
    \/ \E t \in Threads :
         \/ TStart(t)
         \/ TSetRunning(t)
         \/ TReadStats(t)
         \/ TReadStatsFails(t)
         \/ TLoopCheck(t)
         \/ TDiscover(t)
         \/ TDiscoverFails(t)
         \/ TProcessFileNoSignature(t)
         \/ TInvokeCallback(t)
         \/ \E r \in CallbackResults : TCallbackReturns(t, r)
         \/ TCallbackRaises(t)
         \/ TMarkResult(t)
         \/ TMarkResultFails(t)
         \/ TMarkFailure(t)
         \/ TMarkFailureFails(t)
         \/ TAfterScan(t)
         \/ \E n \in Instants : TSleep(t, n)
         \/ TFinally(t)

SpecThreads == InitThreads /\ [][NextThreads]_vars

\* C20 as stated: under every interleaving of start_continuous_monitoring
\* and stop_monitoring calls on a monitor (get_status changes nothing they
\* read), at most one thread is inside the processing callback.
OneCallbackInFlight ==
    Cardinality({t \in DOMAIN threads.loops : threads.loops[t].pc = "callback"}) <= 1

(***************************************************************************)
(* The ledger's retention operation on ledgers of earlier runs: rows of    *)
(* every age around the threshold, for files that are gone.                *)
(***************************************************************************)
\* the paths of earlier recordings
ManyPaths == Paths \cup {"C.m4a"}

\* ages of the rows, in days
LedgerAges == {5, 20, 30, 40}

\* the arguments cleanup_old_records is called with (30 is its default)
CleanupDays == {5, 30}

\* a row written age days ago, in the zone of today
OldRow(path, age) ==
    Row(path, 1, IsoFormat(0), IsoFormat(now - age * Day), TRUE, "NULL")

InitLedger ==
    /\ fs = [p \in Paths |-> NoFile]
    /\ now = 40 * Day
    /\ tz \in TzOffsets
    /\ \E ages \in [ManyPaths -> LedgerAges \cup {-1}] :
         ledger = {OldRow(p, ages[p]) : p \in {q \in ManyPaths : ages[q] >= 0}}
    /\ threads = NoThreads
    /\ Constructed
    /\ NoHistory

\* self.tracker.cleanup_old_records(days)
CleanupOldRecords(days) ==
    LET deleted == OldRecords(ledger, CutoffTime(days)) IN
    /\ ledger' = ledger \ deleted
    /\ cleanup' = [called |-> TRUE, days |-> days,
                   deleted_count |-> Cardinality(deleted)]
    /\ UNCHANGED <<envVars, loopVars, scanVars, outVars, events, histVars, probe>>
    /\ UNCHANGED <<scan_start, asked, threads, scan_log>>

NextLedger == \E days \in CleanupDays : CleanupOldRecords(days)

SpecLedger == InitLedger /\ [][NextLedger]_vars

\* the age of a row in seconds, by the local clock
RowAge(r) == IsoFormat(now) - r.processed_time

\* C21: cleanup_old_records(days) deletes exactly the rows whose processed
\* time is older than now - days, returns the number of rows deleted, lowers
\* get_processed_count() by exactly that number and leaves every other row
\* as it was.
PruneDeletesExactlyTheOld ==
    [][cleanup' # cleanup =>
          LET old == {r \in ledger : RowAge(r) > cleanup'.days * Day} IN
          /\ ledger \ ledger' = old
          /\ ledger' \subseteq ledger
          /\ \A r \in ledger : RowAge(r) <= cleanup'.days * Day => r \in ledger'
          /\ cleanup'.deleted_count = Cardinality(old)
          /\ GetProcessedCount(ledger') =
                 GetProcessedCount(ledger) - cleanup'.deleted_count]_vars

\* of rows aged 40, 20 and 5 days, cleanup_old_records(30) has deleted one
PrunedOneOfThree ==
    /\ cleanup = [called |-> TRUE, days |-> 30, deleted_count |-> 1]
    /\ {RowAge(r) : r \in ledger} = {20 * Day, 5 * Day}
    /\ GetProcessedCount(ledger) = 2

(***************************************************************************)
(* get_status, called from a reporting thread beside the thread that runs  *)
(* the loop: its two ledger queries and its read of self.running are       *)
(* three steps, and the loop's steps fall between them.                    *)
(***************************************************************************)
\* two recordings lie ready in the watched folder
InitStatus ==
    /\ fs = [p \in Paths |-> [exists |-> TRUE, size |-> 1, mtime |-> 0]]
    /\ now = min_file_age
    /\ tz = 0
    /\ ledger = {}
    /\ threads = NoThreads
    /\ Constructed
    /\ NoHistory

StatusFrame ==
    UNCHANGED <<envVars, ledger, loopVars, scanVars, outVars, events, histVars,
                probe, scan_start, asked, scan_log, cleanup>>

\* total_processed = self.tracker.get_processed_count()
GetStatusCount ==
    /\ threads.status.pc = "idle"
    /\ threads' = [threads EXCEPT !.status =
                      [NoStatus EXCEPT !.pc = "recent",
                                       !.total_processed = GetProcessedCount(ledger),
                                       !.seen = {ledger}]]
    /\ StatusFrame

\* recent_processed = self.tracker.get_recent_processed(24)
GetStatusRecent ==
    /\ threads.status.pc = "recent"
    /\ \E recent_processed \in GetRecentProcessed(ledger, 24) :
         threads' = [threads EXCEPT !.status =
                        [@ EXCEPT !.pc = "return",
                                  !.processed_last_24h = Len(recent_processed),
                                  !.recent_files = FirstFive(recent_processed),
                                  !.seen = @ \cup {ledger}]]
    /\ StatusFrame

\* the dictionary is built, self.running read, and returned
GetStatusReturn ==
    /\ threads.status.pc = "return"
    /\ threads' = [threads EXCEPT !.status =
                      [@ EXCEPT !.pc = "idle", !.running = running]]
    /\ StatusFrame

NextStatus ==
    \/ GetStatusCount
    \/ GetStatusRecent
    \/ GetStatusReturn
    \/ Start
    \/ SetRunning
    \/ ReadStats
    \/ LoopCheck
    \/ Discover
    \/ InvokeCallback
    \/ \E r \in CallbackResults : CallbackReturns(r)
    \/ CallbackRaises
    \/ MarkResult
    \/ MarkFailure
    \/ AfterScan
    \/ \E t \in Instants : Sleep(t)
    \/ Finally
    \/ StopMonitoring

SpecStatus == InitStatus /\ [][NextStatus]_vars

\* a step of get_status, and the step in which it returns
StatusStep == threads'.status # threads.status
StatusReturns == threads.status.pc = "return" /\ threads'.status.pc = "idle"

\* C22 as stated: get_status, called in any state and beside a scan in
\* flight, changes neither the ledger nor the running flag, and the
\* dictionary it returns is a snapshot: for the ledger as it was at some
\* moment of the call, total_processed = get_processed_count() and
\* recent_files = the five newest rows at most of the last 24 hours, newest
\* first; and processed_last_24h <= total_processed.
StatusIsReadOnlySnapshot ==
    [][StatusStep =>
          /\ ledger' = ledger
          /\ running' = running
          /\ StatusReturns =>
                 LET status == threads'.status IN
                 /\ status.running = running
                 /\ status.processed_last_24h <= status.total_processed
                 /\ Len(status.recent_files) <= 5
                 /\ \E L \in status.seen :
                        /\ status.total_processed = GetProcessedCount(L)
                        /\ \E recent \in GetRecentProcessed(L, 24) :
                               /\ status.recent_files = FirstFive(recent)
                               /\ status.processed_last_24h = Len(recent)]_vars

(***************************************************************************)
(* Discovery on its own (main with --scan-only calls run_single_scan once) *)
(* over three recordings of every age around the window and ledgers of     *)
(* earlier runs.                                                           *)
(***************************************************************************)
\* ages of the recordings, in seconds
FileAges == {10, min_file_age, 45, MaxAge, 9 * Day}

\* what the ledger holds for a path: nothing, a row with the file's present
\* signature, a row with another size
RowKinds == {"none", "same", "resized"}

RowOfKind(path, kind) ==
    Row(path, IF kind = "same" THEN fs[path].size ELSE fs[path].size + 1,
        IsoFormat(fs[path].mtime), IsoFormat(now), TRUE, "NULL")

InitDiscover ==
    /\ now = 9 * Day
    /\ tz = 0
    /\ fs \in [ManyPaths -> {NoFile} \cup
                   {[exists |-> TRUE, size |-> 1, mtime |-> now - age] :
                       age \in FileAges}]
    /\ \E kinds \in [ManyPaths -> RowKinds] :
         ledger = {RowOfKind(p, kinds[p]) :
                      p \in {q \in ManyPaths : kinds[q] # "none"}}
    /\ threads = NoThreads
    /\ Constructed
    /\ NoHistory

\* monitor.run_single_scan(), called by main: scan_start = time.time()
ScanOnly ==
    /\ pc = "idle"
    /\ pc' = "discover"
    /\ scan_start' = now
    /\ UNCHANGED <<envVars, ledger, running, scanVars, outVars, events, histVars,
                   probe>>
    /\ UNCHANGED <<asked, threads, scan_log, cleanup>>

NextDiscover == ScanOnly \/ Discover

SpecDiscover == InitDiscover /\ [][NextDiscover]_vars

\* the candidate is ready, its signature can be obtained, and the ledger
\* holds no row with that signature
Wanted(p) ==
    /\ fs[p].exists
    /\ now - fs[p].mtime >= min_file_age
    /\ now - fs[p].mtime <= MaxAge
    /\ ~\E r \in ledger : /\ r.file_path = p
                           /\ r.file_size = fs[p].size
                           /\ r.modification_time = IsoFormat(fs[p].mtime)

\* found holds the wanted entries of the list all and no others, each once,
\* in the order of the list
PicksTheWanted(found, all) ==
    \E at \in [1..Len(found) -> 1..Len(all)] :
        /\ \A i, j \in 1..Len(found) : i < j => at[i] < at[j]
        /\ \A i \in 1..Len(found) : found[i] = all[at[i]]
        /\ {at[i] : i \in 1..Len(found)} = {k \in 1..Len(all) : Wanted(all[k])}

\* C23: discover_new_files returns exactly the candidates of the adapter's
\* list that are ready, have an obtainable signature and have no ledger row
\* with that signature, in the order of the adapter's list.
DiscoversExactlyTheNew ==
    [][(pc = "discover" /\ pc' # pc) =>
           LET found == IF pc' = "process" THEN new_files' ELSE <<>> IN
           /\ pc' = "after_scan" <=> found = <<>>
           /\ \E all \in DiscoverAudioFiles : PicksTheWanted(found, all)
           /\ ledger' = ledger]_vars

\* the ledger empty, files aged 45 seconds, 10 seconds and 9 days: only the
\* first has been returned
OnlyTheReadyFileReturned ==
    /\ pc = "process"
    /\ ledger = {}
    /\ now - fs["A.m4a"].mtime = 45
    /\ now - fs["B.m4a"].mtime = 10
    /\ now - fs["C.m4a"].mtime = 9 * Day
    /\ new_files = <<"A.m4a">>

(***************************************************************************)
(* The scan over every list an adapter can hand to discover_new_files:     *)
(* self.audio_processor.discover_audio_files() returns a list of entries,  *)
(* and nothing in discover_new_files or run_single_scan looks at more than *)
(* one entry at a time.                                                    *)
(***************************************************************************)
\* length of the adapter's list
MaxListing == 3

\* the lists over the files at hand, in any order, a path once or more
Listings ==
    UNION {[1..n -> {p \in DOMAIN fs : Stat(p).exists}] : n \in 0..MaxListing}

DiscoverListed == DiscoverFrom(Listings)

NextLists ==
    \/ Start
    \/ SetRunning
    \/ ReadStats
    \/ LoopCheck
    \/ DiscoverListed
    \/ InvokeCallback
    \/ \E r \in CallbackResults : CallbackReturns(r)
    \/ CallbackRaises
    \/ MarkResult
    \/ MarkFailure
    \/ AfterScan
    \/ \E t \in Instants : Sleep(t)
    \/ Finally
    \/ StopMonitoring

SpecLists == InitStatus /\ [][NextLists]_vars

\* how often the scan under way has invoked the callback with the path
CallbacksFor(p) ==
    Cardinality({i \in 1..Len(scan_log) :
                    scan_log[i].op = "callback" /\ scan_log[i].path = p})

\* how often the path stands among the first n entries of the list
Occurrences(p, list, n) == Cardinality({i \in 1..n : list[i] = p})

NoRepeats(list) == \A i, j \in 1..Len(list) : i # j => list[i] # list[j]

InScanLoop == pc \in {"process", "callback", "mark", "mark_exc"}

LogOf(op) == SelectSeq(scan_log, LAMBDA e : e.op = op)

\* the callback is invoked for an entry of the list
CallbackStarts == pc = "process" /\ pc' = "callback"

\* every invocation logged so far was followed by its committed write
EachCallbackWritten ==
    \A i \in 1..Len(scan_log) :
        scan_log[i].op = "callback" =>
            \E j \in (i + 1)..Len(scan_log) :
                scan_log[j].op = "write" /\ scan_log[j].path = scan_log[i].path

\* C25: within one scan the files are handed to process_file, and to the
\* callback, in the order of the list discover_new_files returned, one
\* after the other; and when the callback is invoked for a file, the
\* mark_processed call of every file handed to it before has committed.
ProcessedInListOrder ==
    [][/\ CallbackStarts =>
              /\ signature'.path = new_files[idx]
              /\ Len(LogOf("return")) = idx - 1
              /\ \A i \in 1..(idx - 1) : LogOf("return")[i].path = new_files[i]
              /\ EachCallbackWritten
              /\ \A e \in Range(LogOf("write")) : \E r \in ledger : r.file_path = e.path
       /\ (InScanLoop /\ InScanLoop') =>
              /\ new_files' = new_files
              /\ idx' \in {idx, idx + 1}
              /\ idx' = idx + 1 => (pc' = "process" /\ returned'.kind = "returned")]_vars

\* the callback runs for the second file of the list, the row of the first
\* committed
SecondCallbackAfterFirstWrite ==
    /\ pc = "callback"
    /\ idx = 2
    /\ Len(scan_log) = 4
    /\ scan_log[1] = Logged("callback", new_files[1], FALSE)
    /\ scan_log[2].op = "write" /\ scan_log[2].path = new_files[1]
    /\ scan_log[3].op = "return" /\ scan_log[3].path = new_files[1]
    /\ scan_log[4] = Logged("callback", new_files[2], FALSE)
    /\ \E r \in ledger : r.file_path = new_files[1]

(***************************************************************************)
(* Pickup: the loop runs without faults while recordings arrive, on a      *)
(* clock fine enough for a recording to become ready during a scan.        *)
(***************************************************************************)
\* the start, one minimum age later, and one and two polling intervals
\* after that
PickupInstants ==
    {0, min_file_age, min_file_age + polling_interval,
     min_file_age + 2 * polling_interval}

\* time passes before the monitor is started and while the callback runs;
\* the statements of the loop themselves take no time
TimePasses(t) == pc \in {"idle", "callback"} /\ Advance(t)

NextPickup ==
    \/ \E p \in Paths, s \in Sizes : WriteFile(p, s)
    \/ \E t \in PickupInstants : TimePasses(t)
    \/ Start
    \/ SetRunning
    \/ ReadStats
    \/ LoopCheck
    \/ Discover
    \/ InvokeCallback
    \/ \E r \in CallbackResults : CallbackReturns(r)
    \/ CallbackRaises
    \/ MarkResult
    \/ MarkFailure
    \/ AfterScan
    \/ \E t \in PickupInstants : Sleep(t)
    \/ Finally
    \/ StopMonitoring

SpecPickup == Init /\ [][NextPickup]_vars

\* the instant the file's age reached min_file_age
ReadySince(p) == fs[p].mtime + min_file_age

\* the file is inside the age window and no row has its signature
AwaitsPickup(p) == InWindow(p) /\ ~HasMatchingRow(p)

\* time.sleep returns, exactly one polling interval after it was called
WakesOnTime == pc = "sleep" /\ pc' = "loop" /\ now' = now + polling_interval

ReadyWhenCallbackInvoked ==
    [][CallbackStarts => IsFileReady(new_files[idx])]_vars

\* process_file returns after a committed mark_processed call
RecordWritten ==
    /\ pc \in {"mark", "mark_exc"}
    /\ returned'.kind = "returned"
    /\ ledger' # ledger

\* C28: whenever process_file writes a row, the row's success flag is the
\* outcome of the callback of that attempt: true iff the callback returned
\* a true success, false if it returned a false one or raised; an error of
\* the ledger never has a successful callback recorded as failed.
RecordedFlagIsCallbackOutcome ==
    [][RecordWritten =>
          \E r \in ledger' : /\ r.file_path = signature.path
                               /\ r.success = result.success]_vars

(***************************************************************************)
(* The counts of a scan: C29.                                              *)
(***************************************************************************)
\* run_single_scan returns
ScanReturns == pc # "after_scan" /\ pc' = "after_scan"

\* the process_file calls of the scan that returned a true success
SuccessfulReturns ==
    Len(SelectSeq(scan_log, LAMBDA e : e.op = "return" /\ e.success))

\* C29: in every scan result with success true of a scan that discovered a
\* file at least, files_processed + files_failed = files_found, and
\* files_processed is the number of discovered files for which
\* process_file returned a success.
CountsAddUp ==
    [][(ScanReturns /\ scan_result'.success /\ scan_result'.kind # "empty") =>
          /\ scan_result'.kind = "done"
          /\ scan_result'.files_found = Len(new_files)
          /\ scan_result'.files_found >= 1
          /\ scan_result'.files_found = Len(LogOf("return"))'
          /\ scan_result'.files_processed + scan_result'.files_failed =
                 scan_result'.files_found
          /\ scan_result'.files_processed = SuccessfulReturns']_vars

\* a scan of two files returns: one was processed, one failed
ScanOfTwoCounted ==
    /\ pc = "after_scan"
    /\ scan_result.success
    /\ scan_result.files_found = 2
    /\ scan_result.files_processed = 1
    /\ scan_result.files_failed = 1
    /\ SuccessfulReturns = 1

(***************************************************************************)
(* A stop request beside a starting loop: C30.                             *)
(***************************************************************************)
\* stop_monitoring has been called since start_continuous_monitoring was,
\* and start_continuous_monitoring has not returned
StopPending == "stop" \in asked /\ pc # "idle"

\* C30: a stop request made after start_continuous_monitoring was called is
\* never lost: from the request on self.running stays false until the loop
\* has exited, whatever the interleaving of the two threads.
StopIsNeverLost == [][StopPending => ~running']_vars

====
